---- MODULE Spec2Model ----
(***************************************************************************)
(* A model of the fabric.js video-controls component (AppComponent):       *)
(* src/src/app/app.component.ts, with the layout routine of the earlier    *)
(* variant of the same component, src/unnamed/part_000.                    *)
(*                                                                         *)
(* Times are whole seconds, lengths are whole pixels, scale factors are    *)
(* tenths (scaleX = 3 stands for 0.3); the inputs are chosen so that every *)
(* product and half the code computes is a whole number.                   *)
(***************************************************************************)
EXTENDS Integers, Sequences, FiniteSets, TLC

VARIABLES
    phase,                \* "constructed" | "ready" | "destroyed"
    controlsPresent,      \* controlsRef?.nativeElement exists
    scrubberPresent,      \* scrubberRef?.nativeElement exists
    isPlaying,
    videoDuration,
    currentTime,
    currentTimeLabel,
    videoDurationLabel,
    loop,
    videoElement,         \* the playback element
    videoObject,          \* the fabric image: its geometry
    controlsStyle,        \* controlsElement.style: visibility, width, left, top
    scrubberBackground,   \* the fill percent of scrubber.style.background
    rafQueue,             \* render callbacks queued with requestAnimFrame
    lastOp,               \* the handler that made the last step, with its inputs
    calls                 \* the canvas / DOM / element calls the last step made

vars == <<phase, controlsPresent, scrubberPresent, isPlaying, videoDuration,
          currentTime, currentTimeLabel, videoDurationLabel, loop, videoElement,
          videoObject, controlsStyle, scrubberBackground, rafQueue, lastOp, calls>>

(***************************************************************************)
(* Bounds of the model.                                                    *)
(***************************************************************************)
\* render loops the model lets accumulate before it stops taking play/pause clicks
MaxLoops == 4
\* the longest media resource, in seconds
MaxTime == 120

\* the formatter is applied to every whole number of seconds up to this one
MaxSeconds == 7300

(***************************************************************************)
(* Program constants.                                                      *)
(***************************************************************************)
MIN_CONTROL_WIDTH == 340
CONTROL_OFFSET == 5

Max(a, b) == IF a >= b THEN a ELSE b
Min(a, b) == IF a <= b THEN a ELSE b

(***************************************************************************)
(* Inputs.                                                                 *)
(***************************************************************************)
\* playback positions the media clock and the scrubber can take
Times == {t \in 0..MaxTime : t % 60 = 0} \cup {MaxTime}
\* durations of the media resource behind videoElement.src
Durations == {60, MaxTime}
\* the scrubber's max attribute (set by the template)
ScrubberMaxes == {0, 120}
\* positions, scale factors (tenths) and angles a gesture can leave the object with
Positions == {<<384, 216>>, <<100, 100>>}
Scales == {1, 3}
Angles == {0, 90}

(***************************************************************************)
(* _formatTime: hh:mm:ss, each field padded to two digits.                 *)
(***************************************************************************)
padStart2(str) == IF Len(str) < 2 THEN "0" \o str ELSE str

\* a formatter whose hour field wraps at 100 to stay two digits wide
_formatTime_wrapped(seconds) ==
    LET hours == (seconds \div 3600) % 100
        minutes == (seconds % 3600) \div 60
        secs == seconds % 60
        hh == padStart2(ToString(hours))
        mm == padStart2(ToString(minutes))
        ss == padStart2(ToString(secs))
    IN  hh \o ":" \o mm \o ":" \o ss

_formatTime(seconds) ==
    LET hours == seconds \div 3600
        minutes == (seconds % 3600) \div 60
        secs == seconds % 60
        hh == padStart2(ToString(hours))
        mm == padStart2(ToString(minutes))
        ss == padStart2(ToString(secs))
    IN  hh \o ":" \o mm \o ":" \o ss

(***************************************************************************)
(* The fill percent a / b * 100 as JavaScript computes it: NaN for 0 / 0,  *)
(* Infinity for a positive number over 0, else the fraction n / d in       *)
(* lowest terms.                                                           *)
(***************************************************************************)
RECURSIVE GCD(_, _)
GCD(a, b) == IF b = 0 THEN a ELSE GCD(b, a % b)

Percent(a, b) ==
    IF b = 0
    THEN IF a = 0 THEN [kind |-> "NaN", n |-> 0, d |-> 0]
                  ELSE [kind |-> "Infinity", n |-> 0, d |-> 0]
    ELSE LET g == GCD(a * 100, b)
         IN  [kind |-> "number", n |-> (a * 100) \div g, d |-> b \div g]

NoBackground == [kind |-> "unset", n |-> 0, d |-> 0]

(***************************************************************************)
(* The state a handler works on, as one record.                            *)
(***************************************************************************)
this ==
    [isPlaying |-> isPlaying, videoDuration |-> videoDuration,
     currentTime |-> currentTime, currentTimeLabel |-> currentTimeLabel,
     videoDurationLabel |-> videoDurationLabel, loop |-> loop,
     videoElement |-> videoElement, videoObject |-> videoObject,
     controlsStyle |-> controlsStyle, scrubberBackground |-> scrubberBackground,
     rafQueue |-> rafQueue, calls |-> {}]

BecomesWith(s, op, args) ==
    /\ isPlaying' = s.isPlaying
    /\ videoDuration' = s.videoDuration
    /\ currentTime' = s.currentTime
    /\ currentTimeLabel' = s.currentTimeLabel
    /\ videoDurationLabel' = s.videoDurationLabel
    /\ loop' = s.loop
    /\ videoElement' = s.videoElement
    /\ videoObject' = s.videoObject
    /\ controlsStyle' = s.controlsStyle
    /\ scrubberBackground' = s.scrubberBackground
    /\ rafQueue' = s.rafQueue
    /\ calls' = s.calls
    /\ lastOp' = [name |-> op, args |-> args]

Becomes(s, op) == BecomesWith(s, op, <<>>)

Call(s, name) == [s EXCEPT !.calls = @ \cup {name}]

(***************************************************************************)
(* The playback element (HTMLVideoElement).                                *)
(***************************************************************************)
\* the {} the field is initialised with: every property reads as undefined
EmptyElement ==
    [paused |-> FALSE, currentTime |-> 0, loop |-> FALSE,
     hasMetadata |-> FALSE, duration |-> 0]

\* document.createElement('video')
NewVideoElement ==
    [paused |-> TRUE, currentTime |-> 0, loop |-> FALSE,
     hasMetadata |-> FALSE, duration |-> 0]

\* videoElement.play(): takes effect unless the browser refuses it; playing an
\* element that has ended restarts it
ElementPlay(v, allowed) ==
    IF ~allowed THEN v
    ELSE [v EXCEPT !.paused = FALSE,
                   !.currentTime = IF v.hasMetadata /\ @ >= v.duration THEN 0 ELSE @]

\* videoElement.pause()
ElementPause(v) == [v EXCEPT !.paused = TRUE]

\* videoElement.currentTime = t: a seek, clamped to the duration once it is known
ElementSeek(v, t) ==
    [v EXCEPT !.currentTime = IF v.hasMetadata THEN Min(Max(t, 0), v.duration) ELSE Max(t, 0)]

(***************************************************************************)
(* The fabric image object: its bounding rectangle.                        *)
(***************************************************************************)
NewVideoObject ==
    [left |-> 1920 \div 5, top |-> 1080 \div 5, width |-> 1920, height |-> 1080,
     scaleX |-> 3, scaleY |-> 3, angle |-> 0]

Cos(a) == CASE a = 0 -> 1 [] a = 90 -> 0 [] a = 180 -> -1 [] a = 270 -> 0
Sin(a) == CASE a = 0 -> 0 [] a = 90 -> 1 [] a = 180 -> 0 [] a = 270 -> -1

SetMin(S) == CHOOSE x \in S : \A y \in S : x <= y
SetMax(S) == CHOOSE x \in S : \A y \in S : x >= y

\* videoObject.getBoundingRect(): the box around the four corners of the scaled
\* object rotated by angle about its left/top origin point
getBoundingRect(o) ==
    LET w == (o.width * o.scaleX) \div 10
        h == (o.height * o.scaleY) \div 10
        xs == {o.left, o.left + w * Cos(o.angle), o.left - h * Sin(o.angle),
               o.left + w * Cos(o.angle) - h * Sin(o.angle)}
        ys == {o.top, o.top + w * Sin(o.angle), o.top + h * Cos(o.angle),
               o.top + w * Sin(o.angle) + h * Cos(o.angle)}
    IN  [left |-> SetMin(xs), top |-> SetMin(ys),
         width |-> SetMax(xs) - SetMin(xs), height |-> SetMax(ys) - SetMin(ys)]

NoStyle == [visibility |-> "", width |-> 0, left |-> 0, top |-> 0]

(***************************************************************************)
(* The component's methods, as functions from the state before to the      *)
(* state after.                                                            *)
(***************************************************************************)
_toggleControlVisibility(s, styleVal) ==
    IF controlsPresent
    THEN Call([s EXCEPT !.controlsStyle.visibility = styleVal], "style.visibility")
    ELSE s

\* the routine without its first step: the bar is repositioned while still shown
_updateControlsPosition_shown(s) ==
    LET boundingRect == getBoundingRect(s.videoObject)
        controlWidth == Max(boundingRect.width, MIN_CONTROL_WIDTH)
        controlTop == boundingRect.top + boundingRect.height + CONTROL_OFFSET
        controlLeft == boundingRect.left
                       + ((boundingRect.width \div 2) - (controlWidth \div 2))
    IN  IF controlsPresent
        THEN Call([s EXCEPT !.controlsStyle.width = controlWidth,
                            !.controlsStyle.left = controlLeft,
                            !.controlsStyle.top = controlTop], "style.layout")
        ELSE s

\* the routine with the object's width taken as the control width, no minimum
_updateControlsPosition_unclamped(s) ==
    LET hidden == _toggleControlVisibility(s, "hidden")
        boundingRect == getBoundingRect(s.videoObject)
        controlWidth == boundingRect.width
        controlTop == boundingRect.top + boundingRect.height + CONTROL_OFFSET
        controlLeft == boundingRect.left
    IN  IF controlsPresent
        THEN Call([hidden EXCEPT !.controlsStyle.width = controlWidth,
                                 !.controlsStyle.left = controlLeft,
                                 !.controlsStyle.top = controlTop], "style.layout")
        ELSE hidden

\* the routine with the minimum width but the bar left-aligned with the object
_updateControlsPosition_leftAligned(s) ==
    LET hidden == _toggleControlVisibility(s, "hidden")
        boundingRect == getBoundingRect(s.videoObject)
        controlWidth == Max(boundingRect.width, MIN_CONTROL_WIDTH)
        controlTop == boundingRect.top + boundingRect.height + CONTROL_OFFSET
        controlLeft == boundingRect.left
    IN  IF controlsPresent
        THEN Call([hidden EXCEPT !.controlsStyle.width = controlWidth,
                                 !.controlsStyle.left = controlLeft,
                                 !.controlsStyle.top = controlTop], "style.layout")
        ELSE hidden

_updateControlsPosition(s) ==
    LET hidden == _toggleControlVisibility(s, "hidden")
        boundingRect == getBoundingRect(s.videoObject)
        controlWidth == Max(boundingRect.width, MIN_CONTROL_WIDTH)
        controlTop == boundingRect.top + boundingRect.height + CONTROL_OFFSET
        controlLeft == boundingRect.left
                       + ((boundingRect.width \div 2) - (controlWidth \div 2))
    IN  IF controlsPresent
        THEN Call([hidden EXCEPT !.controlsStyle.width = controlWidth,
                                 !.controlsStyle.left = controlLeft,
                                 !.controlsStyle.top = controlTop], "style.layout")
        ELSE hidden

\* the earlier routine with the minimum width of the later one
updateControlsPosition_clamped(s) ==
    LET hidden == _toggleControlVisibility(s, "hidden")
        fabricImgObj == s.videoObject
    IN  IF controlsPresent
        THEN Call([hidden EXCEPT
                      !.controlsStyle.width =
                          Max((fabricImgObj.width * fabricImgObj.scaleX) \div 10 - 5,
                              MIN_CONTROL_WIDTH),
                      !.controlsStyle.left = fabricImgObj.left,
                      !.controlsStyle.top =
                          fabricImgObj.top
                          + (fabricImgObj.height * fabricImgObj.scaleY) \div 10 + 5],
                  "style.layout")
        ELSE hidden

\* the layout routine of the earlier variant: the object's raw left, top, width,
\* height and scale, no minimum width
updateControlsPosition(s) ==
    LET hidden == _toggleControlVisibility(s, "hidden")
        fabricImgObj == s.videoObject
    IN  IF controlsPresent
        THEN Call([hidden EXCEPT
                      !.controlsStyle.width =
                          (fabricImgObj.width * fabricImgObj.scaleX) \div 10 - 5,
                      !.controlsStyle.left = fabricImgObj.left,
                      !.controlsStyle.top =
                          fabricImgObj.top
                          + (fabricImgObj.height * fabricImgObj.scaleY) \div 10 + 5],
                  "style.layout")
        ELSE hidden

\* a tick that does its work without looking at isPlaying
render_eager(s) ==
    LET pushed == Call(s, "setElement")
        filled == IF scrubberPresent
                  THEN Call([pushed EXCEPT !.scrubberBackground =
                                Percent(pushed.videoElement.currentTime,
                                        pushed.videoDuration)], "fill:render")
                  ELSE pushed
        painted == Call(filled, "requestRenderAll")
        timed == [painted EXCEPT !.currentTime = painted.videoElement.currentTime]
        labelled == [timed EXCEPT !.currentTimeLabel = _formatTime(timed.currentTime)]
    IN  Call([labelled EXCEPT !.rafQueue = @ + 1], "requestAnimFrame")

\* a tick that queues itself again only while playing
render_stopping(s) ==
    LET pushed == Call(s, "setElement")
        filled == IF scrubberPresent
                  THEN Call([pushed EXCEPT !.scrubberBackground =
                                Percent(pushed.videoElement.currentTime,
                                        pushed.videoDuration)], "fill:render")
                  ELSE pushed
        painted == Call(filled, "requestRenderAll")
        timed == [painted EXCEPT !.currentTime = painted.videoElement.currentTime]
        labelled == [timed EXCEPT !.currentTimeLabel = _formatTime(timed.currentTime)]
    IN  IF s.isPlaying
        THEN Call([labelled EXCEPT !.rafQueue = @ + 1], "requestAnimFrame")
        ELSE s

\* a tick that returns early when there is no scrubber element
render_needsScrubber(s) ==
    LET pushed == Call(s, "setElement")
        filled == Call([pushed EXCEPT !.scrubberBackground =
                           Percent(pushed.videoElement.currentTime,
                                   pushed.videoDuration)], "fill:render")
        painted == Call(filled, "requestRenderAll")
        timed == [painted EXCEPT !.currentTime = painted.videoElement.currentTime]
        labelled == [timed EXCEPT !.currentTimeLabel = _formatTime(timed.currentTime)]
        after == IF s.isPlaying /\ scrubberPresent THEN labelled ELSE s
    IN  Call([after EXCEPT !.rafQueue = @ + 1], "requestAnimFrame")

\* the closure render of renderVideoFrame: one tick of the render loop
render(s) ==
    LET pushed == Call(s, "setElement")
        filled == IF scrubberPresent
                  THEN Call([pushed EXCEPT !.scrubberBackground =
                                Percent(pushed.videoElement.currentTime,
                                        pushed.videoDuration)], "fill:render")
                  ELSE pushed
        painted == Call(filled, "requestRenderAll")
        timed == [painted EXCEPT !.currentTime = painted.videoElement.currentTime]
        labelled == [timed EXCEPT !.currentTimeLabel = _formatTime(timed.currentTime)]
        after == IF s.isPlaying THEN labelled ELSE s
    IN  Call([after EXCEPT !.rafQueue = @ + 1], "requestAnimFrame")

renderVideoFrame(s) == render(s)

playPauseVideo(s, allowed) ==
    LET toggled == IF s.videoElement.paused
                   THEN Call([s EXCEPT !.videoElement = ElementPlay(@, allowed)], "play")
                   ELSE Call([s EXCEPT !.videoElement = ElementPause(@)], "pause")
        looped == renderVideoFrame(toggled)
    IN  [looped EXCEPT !.isPlaying = ~looped.isPlaying]

\* the loop field flipped on its own, the element's flag never written
changeLoopSetting_unmirrored(s) ==
    Call([s EXCEPT !.loop = ~s.loop], "requestRenderAll")

changeLoopSetting(s) ==
    LET flipped == [s EXCEPT !.videoElement.loop = ~s.videoElement.loop]
        mirrored == [flipped EXCEPT !.loop = flipped.videoElement.loop]
    IN  Call(mirrored, "requestRenderAll")

\* the handler reading the element's time before it assigns the new one
onScrubberChange_stale(s, value, max) ==
    LET filled == Call([s EXCEPT !.scrubberBackground = Percent(value, max)],
                       "fill:scrubber")
        timed == [filled EXCEPT !.currentTime = filled.videoElement.currentTime]
        sought == [timed EXCEPT !.videoElement = ElementSeek(@, value)]
        labelled == [sought EXCEPT !.currentTimeLabel = _formatTime(sought.currentTime)]
        after == IF scrubberPresent THEN labelled ELSE s
    IN  Call(after, "requestRenderAll")

\* value and max are parseFloat(scrubber.value) and parseFloat(scrubber.max)
onScrubberChange(s, value, max) ==
    LET filled == Call([s EXCEPT !.scrubberBackground = Percent(value, max)],
                       "fill:scrubber")
        sought == [filled EXCEPT !.videoElement = ElementSeek(@, value)]
        timed == [sought EXCEPT !.currentTime = sought.videoElement.currentTime]
        labelled == [timed EXCEPT !.currentTimeLabel = _formatTime(timed.currentTime)]
        after == IF scrubberPresent THEN labelled ELSE s
    IN  Call(after, "requestRenderAll")

\* the handler storing the duration without formatting it
onloadedmetadata_unlabelled(s) ==
    [s EXCEPT !.videoDuration = s.videoElement.duration]

onloadedmetadata(s) ==
    LET known == [s EXCEPT !.videoDuration = s.videoElement.duration]
    IN  [known EXCEPT !.videoDurationLabel = _formatTime(known.videoDuration)]

onended(s) == [s EXCEPT !.isPlaying = FALSE]

setupCanvas(s, allowed) ==
    LET created == [s EXCEPT !.videoElement = NewVideoElement,
                             !.videoObject = NewVideoObject]
        started == playPauseVideo(Call(created, "canvas.add"), allowed)
        placed == _updateControlsPosition(started)
        shown == _toggleControlVisibility(placed, "visible")
    IN  renderVideoFrame(shown)

ngOnDestroy(s) == Call(Call(s, "removeListeners"), "dispose")

(***************************************************************************)
(* Initial state: the component as constructed, before ngAfterViewInit.    *)
(***************************************************************************)
Init ==
    /\ phase = "constructed"
    /\ controlsPresent \in BOOLEAN
    /\ scrubberPresent \in BOOLEAN
    /\ isPlaying = FALSE
    /\ videoDuration = 0
    /\ currentTime = 0
    /\ currentTimeLabel = "00:00:00"
    /\ videoDurationLabel = "00:00:00"
    /\ loop = FALSE
    /\ videoElement = EmptyElement
    /\ videoObject = NewVideoObject
    /\ controlsStyle = NoStyle
    /\ scrubberBackground = NoBackground
    /\ rafQueue = 0
    /\ lastOp = [name |-> "constructor", args |-> <<>>]
    /\ calls = {}

Refs == <<controlsPresent, scrubberPresent>>

(***************************************************************************)
(* Actions: one per handler.                                               *)
(***************************************************************************)
\* ngAfterViewInit
SetupCanvas ==
    /\ phase = "constructed"
    /\ \E allowed \in BOOLEAN : Becomes(setupCanvas(this, allowed), "setupCanvas")
    /\ phase' = "ready"
    /\ UNCHANGED Refs

\* a requestAnimFrame callback runs: it leaves the queue and queues itself again
RenderTick ==
    /\ rafQueue > 0
    /\ Becomes(render([this EXCEPT !.rafQueue = @ - 1]), "render")
    /\ UNCHANGED <<phase, Refs>>

\* the play / pause button
PlayPauseVideo ==
    /\ phase = "ready"
    /\ rafQueue < MaxLoops
    /\ \E allowed \in BOOLEAN : Becomes(playPauseVideo(this, allowed), "playPauseVideo")
    /\ UNCHANGED <<phase, Refs>>

\* the loop button
ChangeLoopSetting ==
    /\ phase = "ready"
    /\ Becomes(changeLoopSetting(this), "changeLoopSetting")
    /\ UNCHANGED <<phase, Refs>>

\* the scrubber's input event
OnScrubberChange ==
    /\ phase = "ready"
    /\ \E max \in ScrubberMaxes : \E value \in {v \in Times : v <= max} :
          BecomesWith(onScrubberChange(this, value, max), "onScrubberChange",
                      <<value, max>>)
    /\ UNCHANGED <<phase, Refs>>

\* fabric moved the object and fired object:moving
ObjectMoving ==
    /\ phase = "ready"
    /\ \E p \in Positions :
          Becomes(_updateControlsPosition(
                      [this EXCEPT !.videoObject.left = p[1], !.videoObject.top = p[2]]),
                  "object:moving")
    /\ UNCHANGED <<phase, Refs>>

\* fabric scaled the object (uniformly, by a corner) and fired object:scaling
ObjectScaling ==
    /\ phase = "ready"
    /\ \E sc \in Scales :
          Becomes(_updateControlsPosition(
                      [this EXCEPT !.videoObject.scaleX = sc, !.videoObject.scaleY = sc]),
                  "object:scaling")
    /\ UNCHANGED <<phase, Refs>>

\* a component that does not listen to object:rotating, as the earlier variant
ObjectRotating_unheard ==
    /\ phase = "ready"
    /\ \E a \in Angles : \E p \in Positions :
          Becomes([this EXCEPT !.videoObject.angle = a,
                               !.videoObject.left = p[1], !.videoObject.top = p[2]],
                  "object:rotating")
    /\ UNCHANGED <<phase, Refs>>

\* fabric rotated the object and fired object:rotating
ObjectRotating ==
    /\ phase = "ready"
    /\ \E a \in Angles : \E p \in Positions :
          Becomes(_updateControlsPosition(
                      [this EXCEPT !.videoObject.angle = a,
                                   !.videoObject.left = p[1], !.videoObject.top = p[2]]),
                  "object:rotating")
    /\ UNCHANGED <<phase, Refs>>

\* a mouse:up handler that also toggles playback, as a click-to-play canvas would
MouseUp_clickToPlay ==
    /\ phase = "ready"
    /\ Becomes([_toggleControlVisibility(this, "visible") EXCEPT
                   !.isPlaying = ~isPlaying], "mouse:up")
    /\ UNCHANGED <<phase, Refs>>

\* mouse:up on the canvas
MouseUp ==
    /\ phase = "ready"
    /\ Becomes(_toggleControlVisibility(this, "visible"), "mouse:up")
    /\ UNCHANGED <<phase, Refs>>

\* the element learns the duration of its resource and notifies the component
LoadedMetadata ==
    /\ phase # "constructed"
    /\ ~videoElement.hasMetadata
    /\ \E d \in Durations :
          Becomes(onloadedmetadata(
                      [this EXCEPT !.videoElement.hasMetadata = TRUE,
                                   !.videoElement.duration = d,
                                   !.videoElement.currentTime = Min(@, d)]),
                  "onloadedmetadata")
    /\ UNCHANGED <<phase, Refs>>

\* the element plays on: its clock advances, and wraps at the end when looping
Playback ==
    /\ phase # "constructed"
    /\ videoElement.hasMetadata
    /\ ~videoElement.paused
    /\ \/ videoElement.currentTime < videoElement.duration
       \/ videoElement.loop
    /\ Becomes([this EXCEPT !.videoElement.currentTime =
                    IF @ < videoElement.duration
                    THEN Min(@ + 60, videoElement.duration) ELSE 0],
               "playback")
    /\ UNCHANGED <<phase, Refs>>

\* playback reached the end without loop: the element pauses and fires ended
Ended ==
    /\ phase # "constructed"
    /\ videoElement.hasMetadata
    /\ ~videoElement.paused
    /\ ~videoElement.loop
    /\ videoElement.currentTime = videoElement.duration
    /\ Becomes(onended([this EXCEPT !.videoElement.paused = TRUE]), "onended")
    /\ UNCHANGED <<phase, Refs>>

NgOnDestroy ==
    /\ phase = "ready"
    /\ Becomes(ngOnDestroy(this), "ngOnDestroy")
    /\ phase' = "destroyed"
    /\ UNCHANGED Refs

Next ==
    \/ SetupCanvas
    \/ RenderTick
    \/ PlayPauseVideo
    \/ ChangeLoopSetting
    \/ OnScrubberChange
    \/ ObjectMoving
    \/ ObjectScaling
    \/ ObjectRotating
    \/ MouseUp
    \/ LoadedMetadata
    \/ Playback
    \/ Ended
    \/ NgOnDestroy

Spec == Init /\ [][Next]_vars

(***************************************************************************)
(* The render loop under the browser's scheduling: every queued            *)
(* animation-frame callback runs at the next frame. The canvas events,     *)
(* which touch only the control bar, are left out of this specification.   *)
(***************************************************************************)
NextLoop ==
    \/ SetupCanvas
    \/ RenderTick
    \/ PlayPauseVideo
    \/ ChangeLoopSetting
    \/ OnScrubberChange
    \/ LoadedMetadata
    \/ Playback
    \/ Ended
    \/ NgOnDestroy

SpecLoop == Init /\ [][NextLoop]_vars /\ WF_vars(RenderTick)

(***************************************************************************)
(* The two layout routines as pure functions of the object's geometry: a   *)
(* second specification that starts from any geometry of a wider set and   *)
(* applies either routine to it.                                           *)
(***************************************************************************)
LayoutPositions == {<<384, 216>>, <<100, 100>>, <<0, 900>>}
LayoutSizes == {<<1920, 1080>>, <<500, 500>>}
LayoutScales == {1, 3, 10}
LayoutAngles == {0, 90, 180, 270}

InitLayout ==
    /\ phase = "ready"
    /\ controlsPresent \in BOOLEAN
    /\ scrubberPresent = TRUE
    /\ isPlaying = FALSE
    /\ videoDuration = 0
    /\ currentTime = 0
    /\ currentTimeLabel = "00:00:00"
    /\ videoDurationLabel = "00:00:00"
    /\ loop = FALSE
    /\ videoElement = NewVideoElement
    /\ \E p \in LayoutPositions : \E d \in LayoutSizes :
       \E sx \in LayoutScales : \E sy \in LayoutScales : \E a \in LayoutAngles :
          videoObject = [left |-> p[1], top |-> p[2], width |-> d[1], height |-> d[2],
                         scaleX |-> sx, scaleY |-> sy, angle |-> a]
    /\ controlsStyle = NoStyle
    /\ scrubberBackground = NoBackground
    /\ rafQueue = 0
    /\ lastOp = [name |-> "constructor", args |-> <<>>]
    /\ calls = {}

\* app.component.ts
ProjectCentered ==
    /\ Becomes(_updateControlsPosition(this), "_updateControlsPosition")
    /\ UNCHANGED <<phase, Refs>>

\* part_000
ProjectRaw ==
    /\ Becomes(updateControlsPosition(this), "updateControlsPosition")
    /\ UNCHANGED <<phase, Refs>>

NextLayout ==
    \/ ProjectCentered
    \/ ProjectRaw

SpecLayout == InitLayout /\ [][NextLayout]_vars

(***************************************************************************)
(* _formatTime as a pure function: a third specification that starts from  *)
(* any number of seconds, held in currentTime, and formats it into         *)
(* currentTimeLabel.                                                       *)
(***************************************************************************)
FormatInputs == (0..MaxSeconds) \cup {359999, 360000, 363661}

InitFormat ==
    /\ phase = "ready"
    /\ controlsPresent = TRUE
    /\ scrubberPresent = TRUE
    /\ isPlaying = FALSE
    /\ videoDuration = 0
    /\ currentTime \in FormatInputs
    /\ currentTimeLabel = ""
    /\ videoDurationLabel = "00:00:00"
    /\ loop = FALSE
    /\ videoElement = NewVideoElement
    /\ videoObject = NewVideoObject
    /\ controlsStyle = NoStyle
    /\ scrubberBackground = NoBackground
    /\ rafQueue = 0
    /\ lastOp = [name |-> "constructor", args |-> <<>>]
    /\ calls = {}

FormatTime ==
    /\ Becomes([this EXCEPT !.currentTimeLabel = _formatTime(currentTime)],
               "_formatTime")
    /\ UNCHANGED <<phase, Refs>>

NextFormat == FormatTime

SpecFormat == InitFormat /\ [][NextFormat]_vars

(***************************************************************************)
(* Properties.                                                             *)
(***************************************************************************)
GeometryOps == {"object:moving", "object:scaling", "object:rotating"}

\* C1: at most one render callback is queued per animation frame; playPauseVideo
\* adds no second self-rescheduling render loop.
C1_SingleRenderLoop == rafQueue <= 1

\* C2: a render tick that runs as playing while videoDuration is still 0 writes
\* no fill percent into the scrubber gradient.
C2_NoFillWithoutDuration == (videoDuration = 0) => ("fill:render" \notin calls)

\* C3: a render tick that runs with isPlaying false pushes no frame, updates no
\* fill, requests no repaint and leaves currentTime and its label alone: it only
\* queues itself again.
C3_PausedTickIsIdle ==
    [][(lastOp'.name = "render" /\ ~isPlaying)
         => /\ calls' = {"requestAnimFrame"}
            /\ UNCHANGED <<currentTime, currentTimeLabel, scrubberBackground,
                           isPlaying, videoDuration, videoDurationLabel, loop,
                           videoElement, videoObject, controlsStyle, rafQueue>>]_vars

\* a paused tick ran while the element's clock was ahead of the displayed time
C3_Witness ==
    /\ lastOp.name = "render"
    /\ ~isPlaying
    /\ scrubberPresent
    /\ videoElement.currentTime # currentTime

\* C4: the control bar is visible when setupCanvas completes, every
\* object:moving / scaling / rotating hides it, mouse:up shows it, and no other
\* operation changes its visibility.
C4_VisibilityMachine ==
    [][controlsPresent =>
         /\ lastOp'.name = "setupCanvas" => controlsStyle'.visibility = "visible"
         /\ lastOp'.name \in GeometryOps => controlsStyle'.visibility = "hidden"
         /\ lastOp'.name = "mouse:up" => controlsStyle'.visibility = "visible"
         /\ lastOp'.name \notin GeometryOps \cup {"setupCanvas", "mouse:up"}
               => controlsStyle'.visibility = controlsStyle.visibility]_vars

\* the bar, hidden by a gesture, is still hidden after a play / pause click
C4_Witness ==
    /\ controlsPresent
    /\ controlsStyle.visibility = "hidden"
    /\ lastOp.name = "playPauseVideo"

\* the layout _updateControlsPosition derives from a bounding rectangle
LayoutOf(boundingRect) ==
    LET w == IF boundingRect.width >= MIN_CONTROL_WIDTH
             THEN boundingRect.width ELSE MIN_CONTROL_WIDTH
    IN  [width |-> w,
         left |-> boundingRect.left + (boundingRect.width - w) \div 2,
         top |-> boundingRect.top + boundingRect.height + CONTROL_OFFSET]

\* C5: after setupCanvas, whenever the control bar is visible its width, left and
\* top are the projection of the object's current geometry.
C5_VisibleLayoutIsCurrent ==
    (phase # "constructed" /\ controlsPresent /\ controlsStyle.visibility = "visible")
        => LET layout == LayoutOf(getBoundingRect(videoObject))
           IN  /\ controlsStyle.width = layout.width
               /\ controlsStyle.left = layout.left
               /\ controlsStyle.top = layout.top

\* a gesture left the object rotated, away from its first place, and mouse:up ended it
C5_Witness ==
    /\ controlsPresent
    /\ lastOp.name = "mouse:up"
    /\ controlsStyle.visibility = "visible"
    /\ videoObject.angle = 90
    /\ videoObject.left # NewVideoObject.left
    /\ videoObject.scaleX # NewVideoObject.scaleX

\* C6: with isPlaying false, onScrubberChange with value v in [0, max] seeks the
\* element to v (clamped to its duration once that is known), copies the
\* element's time into currentTime, formats it into currentTimeLabel, sets the
\* fill percent to v / max * 100 and requests a repaint, and leaves isPlaying,
\* loop and videoDuration alone; v = 60 of max = 120 gives 60, 00:01:00 and 50.
C6_ScrubWhilePaused ==
    [][(lastOp'.name = "onScrubberChange" /\ scrubberPresent /\ ~isPlaying)
         => LET v == lastOp'.args[1]
                max == lastOp'.args[2]
                clamped == IF videoElement.hasMetadata /\ v > videoElement.duration
                           THEN videoElement.duration ELSE v
            IN  /\ videoElement'.currentTime = clamped
                /\ currentTime' = videoElement'.currentTime
                /\ \E hh \in 0..99 : \E mm \in 0..59 : \E ss \in 0..59 :
                      /\ hh * 3600 + mm * 60 + ss = currentTime'
                      /\ currentTimeLabel' =
                            (IF hh < 10 THEN "0" ELSE "") \o ToString(hh) \o ":"
                            \o (IF mm < 10 THEN "0" ELSE "") \o ToString(mm) \o ":"
                            \o (IF ss < 10 THEN "0" ELSE "") \o ToString(ss)
                /\ max # 0 => /\ scrubberBackground'.kind = "number"
                              /\ scrubberBackground'.n * max
                                    = v * 100 * scrubberBackground'.d
                /\ "requestRenderAll" \in calls'
                /\ UNCHANGED <<isPlaying, loop, videoDuration>>
                /\ (v = 60 /\ max = 120)
                      => /\ currentTime' = 60
                         /\ currentTimeLabel' = "00:01:00"
                         /\ scrubberBackground' = [kind |-> "number", n |-> 50, d |-> 1]]_vars

\* the scrubber of a paused 120 s video was set to 60 after the clock had run on
C6_Witness ==
    /\ lastOp = [name |-> "onScrubberChange", args |-> <<60, 120>>]
    /\ ~isPlaying
    /\ scrubberPresent
    /\ videoDuration = 120
    /\ currentTime = 60
    /\ currentTimeLabel = "00:01:00"
    /\ scrubberBackground = [kind |-> "number", n |-> 50, d |-> 1]
    /\ videoElement.paused

\* C7: the loop field always equals the element's loop flag; changeLoopSetting
\* flips both (so two calls restore the value) and leaves isPlaying, currentTime
\* and videoDuration alone.
C7_LoopMirrored ==
    /\ [](loop = videoElement.loop)
    /\ [][lastOp'.name = "changeLoopSetting"
            => /\ loop' = ~loop
               /\ videoElement'.loop = ~videoElement.loop
               /\ UNCHANGED <<isPlaying, currentTime, videoDuration>>]_vars

\* loop is off again after changeLoopSetting: it was called at least twice
C7_Witness ==
    /\ lastOp.name = "changeLoopSetting"
    /\ ~loop
    /\ ~videoElement.loop

\* C8: the geometry handlers and the mouse:up handler leave the playback state
\* alone (isPlaying, currentTime, videoDuration, loop, both labels and the
\* element's paused, currentTime and loop): they change only the control bar's
\* visibility, width, left and top.
C8_GeometryHandlersKeepPlayback ==
    [][lastOp'.name \in GeometryOps \cup {"mouse:up"}
         => UNCHANGED <<isPlaying, currentTime, videoDuration, loop,
                        currentTimeLabel, videoDurationLabel, videoElement,
                        scrubberBackground, rafQueue>>]_vars

\* a gesture moved the object while the video was playing past its start
C8_Witness ==
    /\ lastOp.name = "object:moving"
    /\ controlsPresent
    /\ isPlaying
    /\ ~videoElement.paused
    /\ currentTime > 0

\* C9: for every geometry, the control width _updateControlsPosition applies is
\* at least MIN_CONTROL_WIDTH.
C9_MinimumWidth ==
    (controlsPresent /\ lastOp.name = "_updateControlsPosition")
        => controlsStyle.width >= MIN_CONTROL_WIDTH

\* an object narrower than the minimum got a bar of the minimum width
C9_Witness ==
    /\ controlsPresent
    /\ lastOp.name = "_updateControlsPosition"
    /\ getBoundingRect(videoObject).width < MIN_CONTROL_WIDTH
    /\ controlsStyle.width = MIN_CONTROL_WIDTH

ExampleGeometry ==
    [left |-> 100, top |-> 100, width |-> 500, height |-> 500,
     scaleX |-> 3, scaleY |-> 3, angle |-> 0]

ScaledWidth(o) == (o.width * o.scaleX) \div 10
ScaledHeight(o) == (o.height * o.scaleY) \div 10

\* C10 as stated: either routine applies width = max(width * scaleX - PADDING,
\* MIN_CONTROL_WIDTH) for one PADDING in 5..10 and top = top + height * scaleY +
\* OFFSET; on the example the earlier routine gives the minimum width, top 255
\* and left 100.
C10_AsStated ==
    \E PADDING \in 5..10 : \E OFFSET \in 5..10 :
        (controlsPresent
         /\ lastOp.name \in {"_updateControlsPosition", "updateControlsPosition"})
            => /\ controlsStyle.width
                     = Max(ScaledWidth(videoObject) - PADDING, MIN_CONTROL_WIDTH)
               /\ videoObject.angle = 0
                     => controlsStyle.top
                           = videoObject.top + ScaledHeight(videoObject) + OFFSET
               /\ (lastOp.name = "updateControlsPosition"
                   /\ videoObject = ExampleGeometry)
                     => /\ controlsStyle.width = MIN_CONTROL_WIDTH
                        /\ controlsStyle.top = 255
                        /\ controlsStyle.left = 100

\* C10, amended: the earlier routine applies width = width * scaleX - 5 with no
\* minimum, left = left and top = top + height * scaleY + 5 (145, 100 and 255 on
\* the example); the later routine applies max(bounding width, MIN_CONTROL_WIDTH)
\* with no padding and top = bounding top + bounding height + 5.
C10_TwoLayouts ==
    controlsPresent =>
        /\ lastOp.name = "updateControlsPosition"
              => /\ controlsStyle.width = ScaledWidth(videoObject) - 5
                 /\ controlsStyle.left = videoObject.left
                 /\ controlsStyle.top = videoObject.top + ScaledHeight(videoObject) + 5
                 /\ videoObject = ExampleGeometry
                       => /\ controlsStyle.width = 145
                          /\ controlsStyle.top = 255
                          /\ controlsStyle.left = 100
        /\ (lastOp.name = "_updateControlsPosition" /\ videoObject.angle = 0)
              => /\ controlsStyle.width
                       = Max(ScaledWidth(videoObject), MIN_CONTROL_WIDTH)
                 /\ controlsStyle.top
                       = videoObject.top + ScaledHeight(videoObject) + CONTROL_OFFSET

\* the earlier routine laid the bar out for the example geometry
C10_Witness ==
    /\ controlsPresent
    /\ lastOp.name = "updateControlsPosition"
    /\ videoObject = ExampleGeometry
    /\ controlsStyle.width = 145

\* C11: once onloadedmetadata has set videoDuration, 0 <= currentTime <=
\* videoDuration in every state.
C11_TimeWithinDuration ==
    videoElement.hasMetadata => (0 <= currentTime /\ currentTime <= videoDuration)

\* C12: currentTimeLabel is the formatted currentTime and videoDurationLabel the
\* formatted videoDuration in every state.
C12_LabelsFollowTimes ==
    /\ currentTimeLabel = _formatTime(currentTime)
    /\ videoDurationLabel = _formatTime(videoDuration)

\* both times have left 0 and both labels show them
C12_Witness ==
    /\ videoDuration = 120
    /\ videoDurationLabel = "00:02:00"
    /\ currentTime = 60
    /\ currentTimeLabel = "00:01:00"
    /\ lastOp.name = "render"

\* a field of the label: the number in decimal, with a leading 0 below 10
Field(n) == IF n < 10 THEN "0" \o ToString(n) ELSE ToString(n)

\* C13: for whole seconds >= 0, _formatTime gives HH:MM:SS with HH =
\* seconds / 3600 rounded down, at least two digits and not wrapped at 100, MM and
\* SS two digits in 00..59, and HH * 3600 + MM * 60 + SS = seconds; 3661 gives
\* 01:01:01, 59 gives 00:00:59, 7200 gives 02:00:00.
C13_FormatTime ==
    lastOp.name = "_formatTime" =>
        \E HH \in 0..(currentTime \div 3600) : \E MM \in 0..59 : \E SS \in 0..59 :
            /\ HH * 3600 + MM * 60 + SS = currentTime
            /\ currentTimeLabel = Field(HH) \o ":" \o Field(MM) \o ":" \o Field(SS)
            /\ Len(currentTimeLabel) = (IF HH < 100 THEN 8 ELSE 9)
            /\ currentTime = 3661 => currentTimeLabel = "01:01:01"
            /\ currentTime = 59 => currentTimeLabel = "00:00:59"
            /\ currentTime = 7200 => currentTimeLabel = "02:00:00"
            /\ currentTime = 360000 => currentTimeLabel = "100:00:00"

\* a time of a hundred hours and more was formatted with a three-digit hour
C13_Witness ==
    /\ lastOp.name = "_formatTime"
    /\ currentTime = 363661
    /\ currentTimeLabel = "101:01:01"

\* C14: after setupCanvas, isPlaying is the negation of the element's paused flag
\* in every state, also when a play() request did not take effect.
C14_PlayingMirrorsPaused ==
    phase # "constructed" => (isPlaying = ~videoElement.paused)

\* a render tick that did the work of a playing tick
PlayingTick == lastOp.name = "render" /\ "setElement" \in calls

\* C15: once renderVideoFrame has been started a render callback is queued in
\* every later state, whatever isPlaying is and also after ngOnDestroy, no step
\* takes a callback away, and a state in which the video is playing is followed
\* by a playing tick unless playback is switched off first.
C15_LoopNeverStops ==
    /\ [](phase # "constructed" => rafQueue >= 1)
    /\ [][rafQueue' >= rafQueue]_vars
    /\ (phase # "constructed" /\ isPlaying) ~> (~isPlaying \/ PlayingTick)

\* a playing tick ran after the component was destroyed
C15_Witness ==
    /\ phase = "destroyed"
    /\ PlayingTick
    /\ rafQueue >= 1

\* C16: after ngOnDestroy has disposed the canvas no step calls setElement or
\* requestRenderAll.
C16_NoCanvasUseAfterDispose ==
    phase = "destroyed" => calls \cap {"setElement", "requestRenderAll"} = {}

\* C17: with the scrubber absent a playing tick still pushes the frame, requests
\* a repaint and updates currentTime and its label, and onScrubberChange still
\* requests a repaint; with the controls absent the geometry and mouse:up
\* handlers change nothing. Only the style writes are skipped.
C17_AbsentTargetsSkipStyleOnly ==
    [][/\ (~scrubberPresent /\ lastOp'.name = "render" /\ isPlaying)
             => /\ {"setElement", "requestRenderAll", "requestAnimFrame"} = calls'
                /\ currentTime' = videoElement.currentTime
                /\ currentTimeLabel' = _formatTime(videoElement.currentTime)
                /\ scrubberBackground' = NoBackground
       /\ (~scrubberPresent /\ lastOp'.name = "onScrubberChange")
             => /\ calls' = {"requestRenderAll"}
                /\ UNCHANGED <<currentTime, currentTimeLabel, videoElement,
                               scrubberBackground, isPlaying>>
       /\ (~controlsPresent /\ lastOp'.name \in GeometryOps \cup {"mouse:up"})
             => /\ calls' = {}
                /\ controlsStyle' = NoStyle
                /\ UNCHANGED <<isPlaying, currentTime, currentTimeLabel,
                               videoElement, scrubberBackground, rafQueue>>]_vars

\* without a scrubber element a playing tick brought currentTime forward
C17_Witness ==
    /\ ~scrubberPresent
    /\ PlayingTick
    /\ currentTime > 0
    /\ currentTimeLabel = "00:01:00"
    /\ scrubberBackground = NoBackground

\* C18: whenever isPlaying is false after setupCanvas, currentTime equals the
\* element's currentTime.
C18_PausedTimeIsCurrent ==
    (phase # "constructed" /\ ~isPlaying) => currentTime = videoElement.currentTime

\* C19: the layout _updateControlsPosition applies is centred on the bounding
\* rectangle and sits 5 below it, also when the width is the minimum, and
\* applying it again to the same geometry changes nothing.
C19_CentredBelow ==
    (controlsPresent /\ lastOp.name = "_updateControlsPosition")
        => LET boundingRect == getBoundingRect(videoObject)
               again == _updateControlsPosition(this).controlsStyle
           IN  /\ 2 * controlsStyle.left + controlsStyle.width
                     = 2 * boundingRect.left + boundingRect.width
               /\ controlsStyle.top = boundingRect.top + boundingRect.height + 5
               /\ again = controlsStyle

\* a bar of the minimum width, wider than the rotated object, starts left of it
C19_Witness ==
    /\ controlsPresent
    /\ lastOp.name = "_updateControlsPosition"
    /\ videoObject.angle = 90
    /\ controlsStyle.width = MIN_CONTROL_WIDTH
    /\ controlsStyle.left < getBoundingRect(videoObject).left

====
